---------------------------- MODULE Spec2Model ----------------------------
(***************************************************************************)
(* Deferred-execution stack and wrap / execute / recover protocol of       *)
(* SyncDeferer (src/src/SyncDeferer.ts, one process-wide static state) and *)
(* AsyncDeferer (src/unnamed/part_000, per-instance state).                *)
(*                                                                         *)
(* The wrapped body and the deferred actions are user code: they are       *)
(* modelled by the library calls they can make (defer, recover, a call of  *)
(* a wrapped function) and by how they end (return a value, throw a        *)
(* value), each chosen nondeterministically.  The library code between     *)
(* two such calls is one step.                                             *)
(***************************************************************************)
EXTENDS Naturals, Sequences, FiniteSets

VARIABLES
  active,        \* the instances that exist in this run
  stack,         \* stack[i]: the deferred functions of instance i, oldest first
  wrapped,       \* wrapped[i]: the re-entrancy flag
  currentError,  \* currentError[i]: the captured failure, Null when absent
  pc,            \* pc[i]: where the call in flight on i stands
  cur,           \* cur[i]: the deferred function being run by execute, 0 if none
  result,        \* result[i]: the local `result` of the wrapper
  nextId,        \* identity given to the next deferred function
  ops,           \* number of library calls user code has made so far
  budget,        \* number of library calls user code makes in this run
  legacy,        \* the static state of the legacy Deferer and its calls in flight
  hist           \* hist[i]: what the call in flight (or the last one) has done

vars == <<active, budget, legacy, stack, wrapped, currentError, pc, cur, result,
          nextId, ops, hist>>

---------------------------------------------------------------------------
(* Bounds of the model *)

\* Library calls (defer, recover, execute, a wrapped function) made in a run.
MaxOps == 5

\* The same, in a run with two instances.
MaxPairOps == 3

\* The same, in a run whose termination is examined.
MaxLiveOps == 4

\* The same, in a run of the legacy Deferer.
MaxLegacyOps == 5

---------------------------------------------------------------------------
(* Instances: "S" is the static state of SyncDeferer, "A" and "B" are
   AsyncDeferer objects. *)

Insts == {"S", "A", "B"}

IsAsync(i) == i # "S"

---------------------------------------------------------------------------
(* JavaScript values: a kind and the text of the value (for an error object,
   its message), as a sequence of string pieces. *)

Null == [k |-> "null", msg |-> <<"null">>]

Undefined == [k |-> "undefined", msg |-> <<"undefined">>]

Zero == [k |-> "number", msg |-> <<"0">>]

Str(s) == [k |-> "string", msg |-> <<s>>]

Err(s) == [k |-> "Error", msg |-> <<s>>]

ErrorKinds == {"Error", "ExecutionError", "NestedSyncDefererError",
               "AsyncExecutionError", "AsyncNestedDefererError",
               "NestedDefererError"}

\* JavaScript truthiness, as tested by `if (err)` and `if (this.currentError)`.
Truthy(v) ==
  /\ v.k # "null"
  /\ v.k # "undefined"
  /\ ~(v.k = "number" /\ v.msg = <<"0">>)
  /\ ~(v.k = "string" /\ v.msg = <<"">>)

\* `${err}`: an error object prints as "<name>: <message>", the other values
\* as their text.
ToString(v) ==
  IF v.k \in ErrorKinds THEN <<v.k, ": ">> \o v.msg ELSE v.msg

\* An execute that rethrew the deferred function's own error.
ExecutionErrorUnwrapped(i, err) == err

\* new ExecutionError(`Error in deferred function: ${err}`)
ExecutionError(i, err) ==
  [k |-> IF IsAsync(i) THEN "AsyncExecutionError" ELSE "ExecutionError",
   msg |-> <<"Error in deferred function: ">> \o ToString(err)]

\* new NestedSyncDefererError(...) / new AsyncNestedDefererError(...)
NestedError(i) ==
  IF IsAsync(i)
    THEN [k |-> "AsyncNestedDefererError",
          msg |-> <<"Nested async defer calls are not supported">>]
    ELSE [k |-> "NestedSyncDefererError",
          msg |-> <<"Nested SyncDeferers are not supported">>]

IsExecutionError(v) == v.k \in {"ExecutionError", "AsyncExecutionError"}

IsNestedError(v) == v.k \in {"NestedSyncDefererError", "AsyncNestedDefererError"}

---------------------------------------------------------------------------
(* What user code may do *)

NumStr == <<"1", "2", "3", "4", "5", "6", "7", "8">>

\* The value deferred function `id` throws when it throws.
ActionError(id) == [k |-> "Error", msg |-> <<"deferred ", NumStr[id]>>]

\* The values a body returns.
BodyValues == {Str("V"), Zero, Undefined}

\* The values a body throws of its own: an Error object and two falsy values.
BodyErrors == {Err("boom"), Null, Zero}


---------------------------------------------------------------------------
(* Observations kept for the call in flight on an instance *)

NoOutcome == [kind |-> "none", val |-> Undefined]

Returned(v) == [kind |-> "return", val |-> v]

Raised(v) == [kind |-> "raise", val |-> v]

EmptyHist ==
  [invoked   |-> <<>>,      \* deferred functions invoked, in order
   drainFrom |-> 0,         \* length of `invoked` when the current drain began
   atStart   |-> <<>>,      \* the stack when the current drain began
   regBody   |-> {},        \* deferred functions the body registered
   recLog    |-> <<>>,      \* values returned by recover calls during the drain
   lastRec   |-> NoOutcome, \* what the latest recover call returned
   raised    |-> <<>>,      \* deferred functions that threw, in order
   bodyOut   |-> NoOutcome, \* how the body ended
   outcome   |-> NoOutcome, \* what the caller got; "none" until control is back
   nested    |-> FALSE,     \* a nested call was rejected during this call
   nestedAt  |-> {},        \* where this call was when calls were rejected
   running   |-> {},        \* deferred functions begun and not yet completed
   mine      |-> {},        \* deferred functions registered on this instance
   prev      |-> FALSE]     \* the call just before rethrew the error of its body

---------------------------------------------------------------------------
(* The library's code *)

\* A defer that put the function at the bottom of the stack.
PushFront(s, fn) == <<fn>> \o s

\* this.stack.push(fn)
Push(s, fn) == Append(s, fn)

\* this.stack.pop(): the function popped and the stack left
Top(s) == s[Len(s)]

Rest(s) == SubSeq(s, 1, Len(s) - 1)

\* A loop that stopped one function early.
LoopRunsOffByOne(s) == Len(s) > 1

\* while (this.stack.length > 0)
LoopRuns(s) == Len(s) > 0

\* A wrapper without its guard.
RejectsNever(i) == FALSE

\* if (this.wrapped) throw new Nested...Error
Rejects(i) == wrapped[i]

\* recover(): the value returned for a stored error ce
RecoverReturn(ce) == IF Truthy(ce) THEN ce ELSE Null

\* A recover that returned the stored error without clearing it.
RecoverStoreKept(ce) == ce

\* recover(): the stored error after the call
RecoverStore(ce) == IF Truthy(ce) THEN Null ELSE ce

\* the end of the catch block: if (this.currentError) throw this.currentError;
\* return undefined
CatchOutcome(ce) == IF Truthy(ce) THEN Raised(ce) ELSE Returned(Undefined)

\* The number of library calls a run may make.
OpsLimit == budget

\* The code that may call the library on instance i: the program at top level,
\* the body, or a deferred function that execute is running.  An AsyncDeferer
\* call in flight is suspended at each await, where any other task may call
\* the instance too.
UserCode(i) ==
  IF IsAsync(i) THEN TRUE
  ELSE pc[i] \in {"idle", "body"} \/ cur[i] # 0

Draining(i) == pc[i] \in {"exec_try", "exec_catch", "exec_direct"}

InWrapper(i) == pc[i] \in {"body", "exec_try", "exec_catch"}

\* Control is back at the caller: an observation of the previous call's
\* outcome lasts until the program makes its next library call.
Seen(h) == [h EXCEPT !.outcome = NoOutcome]

---------------------------------------------------------------------------
\* The legacy Deferer as loaded: static stack = [], static wrapped = false, no
\* call in flight.
LegacyIdle ==
  [stack   |-> <<>>,      \* Deferer.stack, oldest first
   wrapped |-> FALSE,     \* Deferer.wrapped
   frames  |-> <<>>,      \* calls of wrapped functions and of execute in flight
   invoked |-> <<>>,      \* deferred functions invoked since the outermost call
   out     |-> NoOutcome, \* what the caller of the latest wrapped call got
   bodyReg |-> {}]        \* what the body that threw last had registered

Init ==
  /\ active \in {{"S"}, {"A"}}
  /\ budget = MaxOps
  /\ legacy = LegacyIdle
  /\ stack = [i \in Insts |-> <<>>]
  /\ wrapped = [i \in Insts |-> FALSE]
  /\ currentError = [i \in Insts |-> Null]
  /\ pc = [i \in Insts |-> "idle"]
  /\ cur = [i \in Insts |-> 0]
  /\ result = [i \in Insts |-> Undefined]
  /\ nextId = 1
  /\ ops = 0
  /\ hist = [i \in Insts |-> EmptyHist]

\* Fields that were static, shared by every AsyncDeferer as they are in
\* SyncDeferer.
ThisShared(i) == IF IsAsync(i) THEN "A" ELSE i

\* `this`: the object whose fields a method called on instance i uses.
This(i) == i

\* defer(fn)
Defer(i) ==
  /\ UserCode(i)
  /\ ops < OpsLimit
  /\ ops' = ops + 1
  /\ stack' = [stack EXCEPT ![This(i)] = Push(@, nextId)]
  /\ nextId' = nextId + 1
  /\ hist' = [hist EXCEPT ![i] =
                [Seen(@) EXCEPT !.mine = @ \cup {nextId},
                                !.regBody =
                   IF pc[i] = "body" THEN @ \cup {nextId} ELSE @]]
  /\ UNCHANGED <<active, budget, legacy, wrapped, currentError, pc, cur, result>>

\* recover()
Recover(i) ==
  /\ UserCode(i)
  /\ ops < OpsLimit
  /\ ops' = ops + 1
  /\ currentError' = [currentError EXCEPT ![i] = RecoverStore(@)]
  /\ hist' = [hist EXCEPT ![i] =
                [Seen(@) EXCEPT
                   !.lastRec = Returned(RecoverReturn(currentError[i])),
                   !.recLog = IF Draining(i)
                                THEN Append(@, RecoverReturn(currentError[i]))
                                ELSE @]]
  /\ UNCHANGED <<active, budget, legacy, stack, wrapped, pc, cur, result, nextId>>

\* A wrapper that kept the stored error of the previous call.
ResetErrorSkipped(ce) == ce

\* The start of a wrapped function: this.currentError = null
ResetError(ce) == Null

\* A call of a wrapped function.  While the flag is set the guard throws
\* before anything else is done; otherwise the flag is set, the stored error
\* reset, and the body starts.  (The functions run by an execute that the
\* program called directly do not call wrapped functions.)
WrapperCall(i) ==
  /\ UserCode(i)
  /\ pc[i] # "exec_direct"
  /\ ops < OpsLimit
  /\ ops' = ops + 1
  /\ IF Rejects(i)
       THEN /\ hist' = [hist EXCEPT ![i].nested = TRUE,
                                    ![i].nestedAt = @ \cup {pc[i]}]
            /\ UNCHANGED <<wrapped, currentError, pc, cur>>
       ELSE /\ wrapped' = [wrapped EXCEPT ![i] = TRUE]
            /\ currentError' = [currentError EXCEPT ![i] = ResetError(@)]
            /\ pc' = [pc EXCEPT ![i] = "body"]
            /\ cur' = [cur EXCEPT ![i] = 0]
            /\ hist' = [hist EXCEPT ![i] =
                          [EmptyHist EXCEPT !.mine = hist[i].mine,
                                            !.prev =
                                               /\ hist[i].outcome = hist[i].bodyOut
                                               /\ hist[i].outcome.kind = "raise"]]
  /\ UNCHANGED <<active, budget, legacy, stack, result, nextId>>

\* The body returns v: const result = cp(...args); this.execute() begins.
BodyReturn(i, v) ==
  /\ pc[i] = "body"
  /\ result' = [result EXCEPT ![i] = v]
  /\ pc' = [pc EXCEPT ![i] = "exec_try"]
  /\ hist' = [hist EXCEPT ![i].bodyOut = Returned(v),
                          ![i].atStart = stack[i],
                          ![i].drainFrom = Len(hist[i].invoked)]
  /\ UNCHANGED <<active, budget, legacy, stack, wrapped, currentError, cur, nextId, ops>>

\* The values the body may throw: its own, or the error of a nested call it
\* made and did not catch.
BodyThrowable(i) ==
  BodyErrors \cup (IF hist[i].nested THEN {NestedError(i)} ELSE {})

\* The body throws e: catch (err) { this.currentError = err; this.execute() begins.
BodyThrow(i, e) ==
  /\ pc[i] = "body"
  /\ currentError' = [currentError EXCEPT ![i] = e]
  /\ pc' = [pc EXCEPT ![i] = "exec_catch"]
  /\ hist' = [hist EXCEPT ![i].bodyOut = Raised(e),
                          ![i].atStart = stack[i],
                          ![i].drainFrom = Len(hist[i].invoked)]
  /\ UNCHANGED <<active, budget, legacy, stack, wrapped, cur, result, nextId, ops>>

\* execute() called by the program at top level.
DirectExecute(i) ==
  /\ pc[i] = "idle"
  /\ ops < OpsLimit
  /\ ops' = ops + 1
  /\ pc' = [pc EXCEPT ![i] = "exec_direct"]
  /\ hist' = [hist EXCEPT ![i] = [EmptyHist EXCEPT !.atStart = stack[i],
                                                  !.mine = hist[i].mine]]
  /\ UNCHANGED <<active, budget, legacy, stack, wrapped, currentError, cur, result, nextId>>

\* A loop that called fn() without awaiting it.
AwaitDropped(i) == TRUE

\* fn() has returned / await fn() has resumed: execute goes on only when the
\* deferred function it called has completed.
Awaited(i) == cur[i] = 0

\* One turn of the loop of execute: const fn = this.stack.pop(); fn() begins.
ExecutePop(i) ==
  /\ Draining(i)
  /\ Awaited(i)
  /\ LoopRuns(stack[i])
  /\ cur' = [cur EXCEPT ![i] = Top(stack[i])]
  /\ stack' = [stack EXCEPT ![i] = Rest(@)]
  /\ hist' = [hist EXCEPT ![i].invoked = Append(@, Top(stack[i])),
                          ![i].running = @ \cup {Top(stack[i])}]
  /\ UNCHANGED <<active, budget, legacy, wrapped, currentError, pc, result, nextId, ops>>

\* The deferred function returns: execute goes back to the head of its loop.
ActionReturn(i) ==
  /\ Draining(i)
  /\ cur[i] # 0
  /\ cur' = [cur EXCEPT ![i] = 0]
  /\ hist' = [hist EXCEPT ![i].running = @ \ {cur[i]}]
  /\ UNCHANGED <<active, budget, legacy, stack, wrapped, currentError, pc,
                 result, nextId, ops>>

\* A wrapper without its finally block.
FinallySkipped(i) == UNCHANGED wrapped

\* finally { this.wrapped = false; }
Finally(i) == wrapped' = [wrapped EXCEPT ![i] = FALSE]

\* The wrapper returns or throws `out` to its caller, through the finally block.
Finish(i, h, out) ==
  /\ Finally(i)
  /\ pc' = [pc EXCEPT ![i] = "idle"]
  /\ cur' = [cur EXCEPT ![i] = 0]
  /\ result' = [result EXCEPT ![i] = Undefined]
  /\ hist' = [hist EXCEPT ![i] = [h EXCEPT !.outcome = out]]

\* execute, called directly, returns or throws `out` to the program.
FinishDirect(i, h, out) ==
  /\ pc' = [pc EXCEPT ![i] = "idle"]
  /\ cur' = [cur EXCEPT ![i] = 0]
  /\ hist' = [hist EXCEPT ![i] = [h EXCEPT !.outcome = out]]
  /\ UNCHANGED <<wrapped, result>>

\* The loop of execute ends with the stack empty.
\*  - in the try block: return result
\*  - in the catch block: rethrow the stored error, or return undefined
\*  - called directly: execute returns
ExecuteEnd(i) ==
  /\ Draining(i)
  /\ Awaited(i)
  /\ ~LoopRuns(stack[i])
  /\ CASE pc[i] = "exec_try" -> Finish(i, hist[i], Returned(result[i]))
       [] pc[i] = "exec_catch" -> Finish(i, hist[i], CatchOutcome(currentError[i]))
       [] pc[i] = "exec_direct" -> FinishDirect(i, hist[i], Returned(Undefined))
  /\ UNCHANGED <<active, budget, legacy, stack, currentError, nextId, ops>>

\* The deferred function throws: execute throws an ExecutionError.
\*  - execute was called in the try block: the wrapper's catch (err) takes the
\*    ExecutionError, stores it in currentError and calls execute again
\*  - execute was called in the catch block: the ExecutionError leaves the
\*    wrapper
\*  - execute was called directly: the ExecutionError reaches the program
ActionThrow(i) ==
  /\ Draining(i)
  /\ cur[i] # 0
  /\ LET ee == ExecutionError(i, ActionError(cur[i]))
         h == [hist[i] EXCEPT !.raised = Append(@, cur[i]),
                              !.running = @ \ {cur[i]}]
     IN CASE pc[i] = "exec_try" ->
               /\ currentError' = [currentError EXCEPT ![i] = ee]
               /\ pc' = [pc EXCEPT ![i] = "exec_catch"]
               /\ cur' = [cur EXCEPT ![i] = 0]
               /\ hist' = [hist EXCEPT ![i] =
                             [h EXCEPT !.atStart = stack[i],
                                       !.drainFrom = Len(h.invoked)]]
               /\ UNCHANGED <<wrapped, result>>
          [] pc[i] = "exec_catch" ->
               /\ Finish(i, h, Raised(ee))
               /\ UNCHANGED currentError
          [] pc[i] = "exec_direct" ->
               /\ FinishDirect(i, h, Raised(ee))
               /\ UNCHANGED currentError
  /\ UNCHANGED <<active, budget, legacy, stack, nextId, ops>>

Next ==
  \E i \in active :
    \/ Defer(i)
    \/ Recover(i)
    \/ WrapperCall(i)
    \/ \E v \in BodyValues : BodyReturn(i, v)
    \/ \E e \in BodyThrowable(i) : BodyThrow(i, e)
    \/ DirectExecute(i)
    \/ ExecutePop(i)
    \/ ActionReturn(i)
    \/ ExecuteEnd(i)
    \/ ActionThrow(i)

Spec == Init /\ [][Next]_vars

\* Two AsyncDeferer objects, whose calls may be in flight together.
InitPair ==
  /\ active = {"A", "B"}
  /\ budget = MaxPairOps
  /\ legacy = LegacyIdle
  /\ stack = [i \in Insts |-> <<>>]
  /\ wrapped = [i \in Insts |-> FALSE]
  /\ currentError = [i \in Insts |-> Null]
  /\ pc = [i \in Insts |-> "idle"]
  /\ cur = [i \in Insts |-> 0]
  /\ result = [i \in Insts |-> Undefined]
  /\ nextId = 1
  /\ ops = 0
  /\ hist = [i \in Insts |-> EmptyHist]

SpecPair == InitPair /\ [][Next]_vars

\* The body of a wrapped call terminates: it returns or throws.
BodyEnds == \E i \in active : \/ \E v \in BodyValues : BodyReturn(i, v)
                              \/ \E e \in BodyThrowable(i) : BodyThrow(i, e)

\* A deferred function that was invoked terminates: it returns or throws.
ActionEnds == \E i \in active : ActionReturn(i) \/ ActionThrow(i)

\* The loop of execute goes on once the function it called has completed.
LoopStep == \E i \in active : ExecutePop(i) \/ ExecuteEnd(i)

\* The program with user code that terminates: the wrapper and execute have
\* no waiting of their own, so each of their steps is taken once it can be.
InitLive ==
  /\ active \in {{"S"}, {"A"}}
  /\ budget = MaxLiveOps
  /\ legacy = LegacyIdle
  /\ stack = [i \in Insts |-> <<>>]
  /\ wrapped = [i \in Insts |-> FALSE]
  /\ currentError = [i \in Insts |-> Null]
  /\ pc = [i \in Insts |-> "idle"]
  /\ cur = [i \in Insts |-> 0]
  /\ result = [i \in Insts |-> Undefined]
  /\ nextId = 1
  /\ ops = 0
  /\ hist = [i \in Insts |-> EmptyHist]

SpecLive ==
  /\ InitLive /\ [][Next]_vars
  /\ WF_vars(BodyEnds) /\ WF_vars(ActionEnds) /\ WF_vars(LoopStep)

---------------------------------------------------------------------------
(* The legacy Deferer: static stack and flag, no stored error, no recover.
   Its calls are synchronous, so the calls in flight form a call stack
   (legacy.frames, innermost last): a frame is the body of a wrapped function
   or a run of execute, called by the wrapper or by user code. *)

\* new ExecutionError(`Error in deferred function: ${err}`)
LegacyExecutionError(err) ==
  [k |-> "ExecutionError",
   msg |-> <<"Error in deferred function: ">> \o ToString(err)]

\* new NestedDefererError("Nested deferers are not supported")
LegacyNestedError ==
  [k |-> "NestedDefererError", msg |-> <<"Nested deferers are not supported">>]

\* The body cp(...args) of a wrapped function, running.
BodyFrame ==
  [kind |-> "body", by |-> "wrapper", cur |-> 0, v |-> Undefined,
   reg |-> {}, nested |-> FALSE]

\* A run of execute called by user code.
ExecFrame ==
  [kind |-> "exec", by |-> "user", cur |-> 0, v |-> Undefined,
   reg |-> {}, nested |-> FALSE]

LegacyDepth == Len(legacy.frames)

LegacyTop == legacy.frames[LegacyDepth]

LegacyCallers == SubSeq(legacy.frames, 1, LegacyDepth - 1)

\* A wrapped call is still running: its body, or the execute its wrapper
\* called.
LegacyInWrapper ==
  \E k \in 1..LegacyDepth : legacy.frames[k].by = "wrapper"

\* User code is running: the program at top level, a body, or a deferred
\* function.
LegacyUserCode ==
  IF LegacyDepth = 0 THEN TRUE
  ELSE LegacyTop.kind = "body" \/ LegacyTop.cur # 0

\* The innermost frame with one field changed.
LegacyTopWith(f) == [legacy.frames EXCEPT ![LegacyDepth] = f]

\* Deferer.defer(fn)
LegacyDefer ==
  /\ LegacyUserCode
  /\ ops < OpsLimit
  /\ ops' = ops + 1
  /\ nextId' = nextId + 1
  /\ legacy' = [legacy EXCEPT
       !.stack = Push(@, nextId),
       !.out = NoOutcome,
       !.frames = IF LegacyDepth > 0 /\ LegacyTop.kind = "body"
                    THEN LegacyTopWith([LegacyTop EXCEPT !.reg = @ \cup {nextId}])
                    ELSE @]
  /\ UNCHANGED <<active, budget, stack, wrapped, currentError, pc, cur,
                 result, hist>>

\* Deferer.execute() called by user code.
LegacyExecute ==
  /\ LegacyUserCode
  /\ ops < OpsLimit
  /\ ops' = ops + 1
  /\ legacy' = [legacy EXCEPT
       !.frames = Append(@, ExecFrame),
       !.out = NoOutcome,
       !.invoked = IF LegacyDepth = 0 THEN <<>> ELSE @]
  /\ UNCHANGED <<active, budget, stack, wrapped, currentError, pc, cur,
                 result, nextId, hist>>

\* if (this.wrapped) throw new NestedDefererError(...)
LegacyRejects == legacy.wrapped

\* A call of a wrapped function: the guard throws while the flag is set;
\* otherwise this.wrapped = true and the body starts.
LegacyWrapperCall ==
  /\ LegacyUserCode
  /\ ops < OpsLimit
  /\ ops' = ops + 1
  /\ IF LegacyRejects
       THEN legacy' = [legacy EXCEPT
              !.out = NoOutcome,
              !.frames = IF LegacyDepth > 0
                           THEN LegacyTopWith([LegacyTop EXCEPT !.nested = TRUE])
                           ELSE @]
       ELSE legacy' = [legacy EXCEPT
              !.wrapped = TRUE,
              !.frames = Append(@, BodyFrame),
              !.out = NoOutcome,
              !.invoked = IF LegacyDepth = 0 THEN <<>> ELSE @]
  /\ UNCHANGED <<active, budget, stack, wrapped, currentError, pc, cur,
                 result, nextId, hist>>

\* The body returns v: const v = cp(...args); this.execute() begins.
LegacyBodyReturn(v) ==
  /\ LegacyDepth > 0
  /\ LegacyTop.kind = "body"
  /\ legacy' = [legacy EXCEPT
       !.frames = LegacyTopWith([LegacyTop EXCEPT !.kind = "exec", !.v = v])]
  /\ UNCHANGED <<active, budget, stack, wrapped, currentError, pc, cur,
                 result, nextId, ops, hist>>

\* A wrapper whose finally block left the flag as it was.
LegacyFinallySkipped(w) == w

\* finally { this.wrapped = false; }
LegacyFinally(w) == FALSE

\* The values the body may throw: its own, or the error of a nested call it
\* made and did not catch.
LegacyBodyThrowable ==
  BodyErrors \cup (IF LegacyDepth > 0 /\ LegacyTop.nested
                     THEN {LegacyNestedError} ELSE {})

\* The body throws e: the wrapper has no catch block, so e leaves it through
\* the finally block.
LegacyBodyThrow(e) ==
  /\ LegacyDepth > 0
  /\ LegacyTop.kind = "body"
  /\ legacy' = [legacy EXCEPT
       !.wrapped = LegacyFinally(@),
       !.frames = LegacyCallers,
       !.out = Raised(e),
       !.bodyReg = LegacyTop.reg]
  /\ UNCHANGED <<active, budget, stack, wrapped, currentError, pc, cur,
                 result, nextId, ops, hist>>

\* One turn of the loop of execute: const fn = this.stack.pop(); fn() begins.
LegacyPop ==
  /\ LegacyDepth > 0
  /\ LegacyTop.kind = "exec"
  /\ LegacyTop.cur = 0
  /\ LoopRuns(legacy.stack)
  /\ legacy' = [legacy EXCEPT
       !.stack = Rest(@),
       !.invoked = Append(@, Top(legacy.stack)),
       !.frames = LegacyTopWith([LegacyTop EXCEPT !.cur = Top(legacy.stack)])]
  /\ UNCHANGED <<active, budget, stack, wrapped, currentError, pc, cur,
                 result, nextId, ops, hist>>

\* The deferred function returns: execute goes back to the head of its loop.
LegacyActionReturn ==
  /\ LegacyDepth > 0
  /\ LegacyTop.kind = "exec"
  /\ LegacyTop.cur # 0
  /\ legacy' = [legacy EXCEPT
       !.frames = LegacyTopWith([LegacyTop EXCEPT !.cur = 0])]
  /\ UNCHANGED <<active, budget, stack, wrapped, currentError, pc, cur,
                 result, nextId, ops, hist>>

\* The deferred function throws: execute throws an ExecutionError, before its
\* last line; called by the wrapper, the error leaves the wrapper through the
\* finally block.
LegacyActionThrow ==
  /\ LegacyDepth > 0
  /\ LegacyTop.kind = "exec"
  /\ LegacyTop.cur # 0
  /\ legacy' =
       IF LegacyTop.by = "wrapper"
         THEN [legacy EXCEPT
                 !.wrapped = LegacyFinally(@),
                 !.frames = LegacyCallers,
                 !.out = Raised(LegacyExecutionError(ActionError(LegacyTop.cur)))]
         ELSE [legacy EXCEPT !.frames = LegacyCallers]
  /\ UNCHANGED <<active, budget, stack, wrapped, currentError, pc, cur,
                 result, nextId, ops, hist>>

\* The loop of execute ends with the stack empty: this.wrapped = false, and
\* execute returns; called by the wrapper, the wrapper returns v through the
\* finally block.
LegacyExecuteEnd ==
  /\ LegacyDepth > 0
  /\ LegacyTop.kind = "exec"
  /\ LegacyTop.cur = 0
  /\ ~LoopRuns(legacy.stack)
  /\ legacy' =
       IF LegacyTop.by = "wrapper"
         THEN [legacy EXCEPT
                 !.wrapped = LegacyFinally(FALSE),
                 !.frames = LegacyCallers,
                 !.out = Returned(LegacyTop.v)]
         ELSE [legacy EXCEPT !.wrapped = FALSE, !.frames = LegacyCallers]
  /\ UNCHANGED <<active, budget, stack, wrapped, currentError, pc, cur,
                 result, nextId, ops, hist>>

NextLegacy ==
  \/ LegacyDefer
  \/ LegacyExecute
  \/ LegacyWrapperCall
  \/ \E v \in BodyValues : LegacyBodyReturn(v)
  \/ \E e \in LegacyBodyThrowable : LegacyBodyThrow(e)
  \/ LegacyPop
  \/ LegacyActionReturn
  \/ LegacyActionThrow
  \/ LegacyExecuteEnd

InitLegacy ==
  /\ active = {}
  /\ budget = MaxLegacyOps
  /\ legacy = LegacyIdle
  /\ stack = [i \in Insts |-> <<>>]
  /\ wrapped = [i \in Insts |-> FALSE]
  /\ currentError = [i \in Insts |-> Null]
  /\ pc = [i \in Insts |-> "idle"]
  /\ cur = [i \in Insts |-> 0]
  /\ result = [i \in Insts |-> Undefined]
  /\ nextId = 1
  /\ ops = 0
  /\ hist = [i \in Insts |-> EmptyHist]

SpecLegacy == InitLegacy /\ [][NextLegacy]_vars

---------------------------------------------------------------------------
(* Vocabulary of the properties *)

\* Control is back at the caller of the latest call on i, and the program has
\* made no library call since.
Terminated(i) == hist[i].outcome.kind # "none"

\* The latest call on i was a wrapped function, and it has terminated.
WrapperDone(i) == Terminated(i) /\ hist[i].bodyOut.kind # "none"

Count(x, q) == Cardinality({k \in 1..Len(q) : q[k] = x})

Elems(q) == {q[k] : k \in 1..Len(q)}

\* The deferred functions the current drain has invoked so far.
DrainInvoked(h) == SubSeq(h.invoked, h.drainFrom + 1, Len(h.invoked))

\* Those of them that were on the stack when the drain began.
DrainInvokedOld(h) == SelectSeq(DrainInvoked(h), LAMBDA x : x \in Elems(h.atStart))

\* Registration order is the order of the identities.
ReverseRegistrationOrder(q) ==
  \A a, b \in 1..Len(q) : a < b => q[a] > q[b]

\* The current drain was ended by the function it invoked last.
DrainRaised(h) ==
  /\ Len(DrainInvoked(h)) > 0
  /\ Len(h.raised) > 0
  /\ h.raised[Len(h.raised)] = h.invoked[Len(h.invoked)]

---------------------------------------------------------------------------
(* C1: for every accepted wrapped call, whether the body returned or threw,
   if no deferred function threw then every function the body registered
   with defer has been invoked exactly once when the call is back at its
   caller. *)
C1_BodyDefersAllRun ==
  \A i \in active :
    (WrapperDone(i) /\ hist[i].raised = <<>>) =>
      \A id \in hist[i].regBody : Count(id, hist[i].invoked) = 1

C1_Witness ==
  \E i \in active :
    /\ WrapperDone(i)
    /\ hist[i].raised = <<>>
    /\ hist[i].bodyOut.kind = "raise"
    /\ Cardinality(hist[i].regBody) >= 2

(* C2: one drain invokes the functions that were registered when it began in
   the reverse of their registration order and none more than once; it
   invokes all of them unless one of them throws; with none registered it
   invokes nothing and does not throw. *)
C2_DrainIsLifo ==
  \A i \in active :
    (Draining(i) \/ Terminated(i)) =>
      LET h == hist[i] IN
      /\ \A id \in Elems(h.invoked) : Count(id, h.invoked) = 1
      /\ ReverseRegistrationOrder(DrainInvokedOld(h))
      /\ Elems(DrainInvokedOld(h)) \subseteq Elems(h.atStart)
      /\ (Terminated(i) /\ ~DrainRaised(h)) =>
            Elems(DrainInvokedOld(h)) = Elems(h.atStart)
      /\ (Terminated(i) /\ h.invoked = <<>>) =>
            /\ h.raised = <<>>
            /\ h.bodyOut.kind = "none" => h.outcome = Returned(Undefined)

C2_Witness ==
  \E i \in active :
    /\ Terminated(i)
    /\ hist[i].bodyOut.kind = "none"
    /\ Len(hist[i].atStart) >= 3
    /\ hist[i].raised = <<>>
    /\ Len(hist[i].invoked) = Len(hist[i].atStart)

(* C3: if the body throws E, whatever value E is, and no recover call is made
   during the drain and no deferred function throws, the wrapped call
   rethrows E unchanged; and a wrapped call whose body threw E returns
   normally only if some recover call returned E. *)
C3_UnrecoveredRethrown ==
  \A i \in active :
    (WrapperDone(i) /\ hist[i].bodyOut.kind = "raise") =>
      LET h == hist[i] IN
      /\ (h.raised = <<>> /\ h.recLog = <<>>) => h.outcome = Raised(h.bodyOut.val)
      /\ h.outcome.kind = "return" => h.bodyOut.val \in Elems(h.recLog)

(* C4: if the body throws E, a recover call is made during the drain and no
   deferred function throws, then the (first) recover call returns E and the
   wrapped call returns undefined instead of throwing. *)
C4_RecoveredSwallowed ==
  \A i \in active :
    (/\ WrapperDone(i)
     /\ hist[i].bodyOut.kind = "raise"
     /\ hist[i].recLog # <<>>
     /\ hist[i].raised = <<>>) =>
      /\ hist[i].recLog[1] = hist[i].bodyOut.val
      /\ hist[i].outcome = Returned(Undefined)

(* C5: whenever a deferred function throws during the drain of a wrapped
   call, whether the body returned or threw, the wrapped call throws an
   ExecutionError to its caller. *)
C5_DrainFailurePropagates ==
  \A i \in active :
    (WrapperDone(i) /\ hist[i].raised # <<>>) =>
      /\ hist[i].outcome.kind = "raise"
      /\ IsExecutionError(hist[i].outcome.val)

(* C6: within one wrapped call, once a deferred function has thrown, no
   further deferred function is invoked before the call is back at its
   caller. *)
C6_DrainStopsAtFailure ==
  \A i \in active :
    (InWrapper(i) \/ WrapperDone(i)) =>
      (hist[i].raised # <<>> =>
         hist[i].invoked[Len(hist[i].invoked)] = hist[i].raised[1])

(* C7: a call of a wrapped function while a wrapped call is in progress on
   the same instance (its body or its drain running) is thrown the nested
   error: no body starts, and the flag, the stack and the stored error stay
   as they are. *)
C7_NestedCallRejected ==
  [][\A i \in active :
       (WrapperCall(i) /\ InWrapper(i)) =>
          /\ hist'[i] = [hist[i] EXCEPT !.nested = TRUE,
                                       !.nestedAt = @ \cup {pc[i]}]
          /\ pc'[i] = pc[i]
          /\ cur'[i] = cur[i]
          /\ wrapped'[i] = wrapped[i]
          /\ stack'[i] = stack[i]
          /\ currentError'[i] = currentError[i]]_vars

C7_Witness ==
  \E i \in active :
    /\ hist[i].nested
    /\ pc[i] = "exec_catch"
    /\ IsNestedError(currentError[i])
    /\ stack[i] # <<>>

(* C8: the flag is true exactly while an accepted wrapped call is in progress
   (body or drain), and false once the call is back at its caller, whatever
   the outcome. *)
C8_FlagTracksCall ==
  \A i \in active :
    /\ wrapped[i] <=> InWrapper(i)
    /\ Terminated(i) => ~wrapped[i]

C8_Witness ==
  \E i \in active :
    /\ WrapperDone(i)
    /\ hist[i].outcome.kind = "raise"
    /\ IsExecutionError(hist[i].outcome.val)
    /\ hist[i].bodyOut.kind = "raise"
    /\ ~wrapped[i]

(* C9, as stated: a wrapped function called while no call is active, whose
   body returns V and registers nothing, returns V and leaves the stored
   error absent. *)
C9_Original ==
  \A i \in active :
    (/\ WrapperDone(i)
     /\ hist[i].bodyOut.kind = "return"
     /\ hist[i].regBody = {}) =>
      /\ hist[i].outcome = Returned(hist[i].bodyOut.val)
      /\ currentError[i] = Null

(* C9, amended: a wrapped function called while no call is active, whose body
   returns V and registers nothing, returns V and leaves the stored error
   absent, provided no function already pending on the stack throws when the
   call drains it. *)
C9_ReturnsBodyValue ==
  \A i \in active :
    (/\ WrapperDone(i)
     /\ hist[i].bodyOut.kind = "return"
     /\ hist[i].regBody = {}
     /\ hist[i].raised = <<>>) =>
      /\ hist[i].outcome = Returned(hist[i].bodyOut.val)
      /\ currentError[i] = Null

C9_Witness ==
  \E i \in active :
    /\ WrapperDone(i)
    /\ hist[i].bodyOut = Returned(Str("V"))
    /\ hist[i].regBody = {}
    /\ hist[i].raised = <<>>
    /\ hist[i].outcome = Returned(Str("V"))

(* C10: within the drain that follows a body that threw E, the first recover
   call returns E and clears the stored error; every later recover call of
   that drain returns null. *)
C10_RecoverOnce ==
  \A i \in active :
    (/\ Draining(i) \/ Terminated(i)
     /\ hist[i].bodyOut.kind = "raise"
     /\ hist[i].recLog # <<>>) =>
      /\ hist[i].recLog[1] = hist[i].bodyOut.val
      /\ \A k \in 2..Len(hist[i].recLog) : hist[i].recLog[k] = Null
      /\ (Draining(i) /\ hist[i].raised = <<>>) => currentError[i] = Null

\* v is an ExecutionError (AsyncExecutionError) whose message is
\* "Error in deferred function: " followed by the text of the error that
\* deferred function `id` throws.
WrapsFailureOf(v, id) ==
  /\ IsExecutionError(v)
  /\ v.msg = <<"Error in deferred function: ", "Error", ": ",
              "deferred ", NumStr[id]>>

(* C11: if the body throws E, a recover call made earlier in the drain has
   taken E, and a deferred function drained later throws, the wrapped call
   throws the ExecutionError of that function instead of returning
   undefined. *)
C11_DrainFailureBeatsRecovery ==
  \A i \in active :
    (/\ WrapperDone(i)
     /\ hist[i].bodyOut.kind = "raise"
     /\ hist[i].recLog # <<>>
     /\ hist[i].raised # <<>>) =>
      /\ Len(hist[i].raised) = 1
      /\ hist[i].outcome.kind = "raise"
      /\ WrapsFailureOf(hist[i].outcome.val, hist[i].raised[1])

C11_Witness ==
  \E i \in active :
    /\ WrapperDone(i)
    /\ hist[i].bodyOut = Raised(Err("boom"))
    /\ hist[i].recLog = <<Err("boom")>>
    /\ Len(hist[i].invoked) >= 2
    /\ hist[i].raised # <<>>
    /\ currentError[i] = Null

(* C12: whenever a top-level wrapped call has terminated, whatever its
   outcome, the stack is empty. *)
C12_StackEmptyAfterCall ==
  \A i \in active : WrapperDone(i) => stack[i] = <<>>

(* C13: in an AsyncDeferer, the deferred functions of one instance are
   drained one at a time in LIFO order: a deferred function begins only when
   the one begun before it has completed, so no two of them are ever in
   execution together. *)
C13_OneDeferredAtATime ==
  \A i \in active :
    IsAsync(i) =>
      /\ Cardinality(hist[i].running) <= 1
      /\ hist[i].running = (IF cur[i] = 0 THEN {} ELSE {cur[i]})
      /\ Draining(i) => ReverseRegistrationOrder(DrainInvokedOld(hist[i]))

C13_Witness ==
  \E i \in active :
    /\ IsAsync(i)
    /\ InWrapper(i)
    /\ Len(hist[i].invoked) >= 2
    /\ hist[i].running = {hist[i].invoked[Len(hist[i].invoked)]}
    /\ hist[i].recLog # <<>>

(* C14: in an AsyncDeferer, a wrapped call completes (resolves or rejects)
   only after every deferred function its drain invoked has completed. *)
C14_CompletesAfterDeferred ==
  \A i \in active :
    (IsAsync(i) /\ WrapperDone(i)) =>
      /\ hist[i].running = {}
      /\ cur[i] = 0

C14_Witness ==
  \E i \in active :
    /\ IsAsync(i)
    /\ WrapperDone(i)
    /\ Len(hist[i].invoked) >= 2
    /\ hist[i].outcome = Returned(Str("V"))


---------------------------------------------------------------------------
\* The fields and the position of instance i.
InstanceState(i) ==
  <<stack[i], wrapped[i], currentError[i], pc[i], cur[i], result[i], hist[i]>>

\* C15: with two AsyncDeferer instances in flight together, every step is an
\* operation on one of them and leaves the stack, the flag, the stored error
\* and the progress of the other exactly as they were; and the deferred
\* functions an instance holds or has invoked are the ones registered on it,
\* never the other's, so its calls run what they would run alone.
C15_InstancesIsolated ==
  /\ [](\A i \in active :
          /\ Elems(stack[i]) \cup Elems(hist[i].invoked) \subseteq hist[i].mine
          /\ \A j \in active \ {i} : hist[i].mine \cap hist[j].mine = {})
  /\ [][\A i \in active :
          InstanceState(i)' # InstanceState(i) =>
            \A j \in active \ {i} : InstanceState(j)' = InstanceState(j)]_vars

\* Both instances are in flight: A is running one of its deferred functions
\* while the body of B runs.
C15_Witness ==
  /\ active = {"A", "B"}
  /\ Draining("A") /\ cur["A"] # 0 /\ cur["A"] \in hist["A"].mine
  /\ pc["B"] = "body"
  /\ wrapped["A"] /\ wrapped["B"]

(* C16: on one AsyncDeferer instance a wrapped call is accepted only when no
   other call of the instance is between the guard and the finally block: a
   call issued while another is suspended in its body or in its drain (a
   deferred function awaited, or the loop between two of them) is thrown the
   nested error at once; it is not queued, no body starts for it, and the
   call in flight keeps its position, its result, its stack and its stored
   error.  An accepted call starts from the idle instance. *)
C16_ConcurrentCallRejected ==
  [][\A i \in active :
       (IsAsync(i) /\ WrapperCall(i)) =>
          IF InWrapper(i)
            THEN /\ wrapped[i] /\ wrapped'[i]
                 /\ <<pc[i], cur[i], result[i], stack[i], currentError[i]>>' =
                      <<pc[i], cur[i], result[i], stack[i], currentError[i]>>
                 /\ hist'[i].nested
                 /\ hist'[i].bodyOut = hist[i].bodyOut
                 /\ hist'[i].invoked = hist[i].invoked
                 /\ hist'[i].outcome = hist[i].outcome
            ELSE /\ pc[i] = "idle" /\ ~wrapped[i]
                 /\ pc'[i] = "body" /\ wrapped'[i]]_vars

\* A call was rejected while the call in flight was suspended in its drain
\* (and at no other time), and the call in flight then returned the value of
\* its body after running both of its deferred functions.
C16_Witness ==
  \E i \in active :
    /\ IsAsync(i)
    /\ hist[i].nestedAt = {"exec_try"}
    /\ WrapperDone(i)
    /\ hist[i].outcome = hist[i].bodyOut
    /\ hist[i].bodyOut.kind = "return"
    /\ Len(hist[i].invoked) = 2

(* C17: in a wrapped call whose body returned, every recover call made while
   one of its deferred functions is running returns null. *)
C17_RecoverNullAfterReturn ==
  [][\A i \in active :
       (/\ Recover(i)
        /\ InWrapper(i)
        /\ cur[i] # 0
        /\ hist[i].bodyOut.kind = "return") =>
          hist'[i].lastRec = Returned(Null)]_vars

(* C18: an accepted wrapped call starts with the stored error cleared: while
   its body runs the stored error is null and a recover call made by the body
   returns null, whatever the previous call on the same stack left behind
   (in particular an error it rethrew without any recover). *)
C18_CallStartsCleared ==
  \A i \in active :
    pc[i] = "body" =>
      /\ currentError[i] = Null
      /\ hist[i].lastRec \in {NoOutcome, Returned(Null)}

\* The previous call rethrew the error of its body, which stayed stored, and
\* the body of the next call has called recover.
C18_Witness ==
  \E i \in active :
    /\ pc[i] = "body"
    /\ hist[i].prev
    /\ hist[i].lastRec = Returned(Null)

(* C19: when deferred functions threw during a call (a wrapped call or a
   direct drain) and the call raised, what it raised is the ExecutionError
   wrapping the error of the first of them to throw in drain order; the
   error of a function lower on the stack is not the one reported. *)
C19_FirstFailureReported ==
  \A i \in active :
    (Terminated(i) /\ hist[i].raised # <<>> /\ hist[i].outcome.kind = "raise") =>
      WrapsFailureOf(hist[i].outcome.val, hist[i].raised[1])

(* C20: defer, called when the instance is idle, while a body runs or while
   a drain is in progress, succeeds and only appends the function to the end
   of the stack of the instance: the entries already there keep their places,
   and the flag, the stored error and the progress of the call in flight are
   unchanged. *)
C20_DeferOnlyAppends ==
  [][\A i \in active :
       Defer(i) =>
          /\ Len(stack'[i]) = Len(stack[i]) + 1
          /\ SubSeq(stack'[i], 1, Len(stack[i])) = stack[i]
          /\ stack'[i][Len(stack'[i])] = nextId
          /\ wrapped'[i] = wrapped[i]
          /\ currentError'[i] = currentError[i]
          /\ <<pc[i], cur[i], result[i]>>' = <<pc[i], cur[i], result[i]>>]_vars

\* defer has been called in each of the three states: one function was
\* registered before the call, one by the body, and one by a deferred
\* function while others were still pending.
C20_Witness ==
  \E i \in active :
    /\ Draining(i) /\ InWrapper(i)
    /\ cur[i] # 0
    /\ Len(stack[i]) >= 2
    /\ stack[i][Len(stack[i])] > cur[i]
    /\ hist[i].regBody # {}
    /\ \E k \in hist[i].mine : \A b \in hist[i].regBody : k < b
    /\ ops = 4 /\ nextId = 4

(* C21: recover never changes the stack or the flag (nor the position of a
   call in flight); when no error is stored it returns null and leaves the
   stored error null; when an error is stored the one change it makes is to
   clear it. *)
C21_RecoverFrame ==
  [][\A i \in active :
       Recover(i) =>
          /\ stack'[i] = stack[i]
          /\ wrapped'[i] = wrapped[i]
          /\ <<pc[i], cur[i], result[i]>>' = <<pc[i], cur[i], result[i]>>
          /\ currentError'[i] = Null
          /\ currentError[i] = Null => hist'[i].lastRec = Returned(Null)]_vars

(* C23: a function registered while a drain is running is invoked in that
   drain before any older pending one: whenever the drain invokes a function,
   every function still pending was registered before it; so a function that
   a deferred function registers is the next one invoked once the registering
   one has completed, and a drain in which no function threw ends with the
   stack empty. *)
C23_DeferDuringDrainRunsNext ==
  /\ [][\A i \in active :
          ExecutePop(i) =>
             /\ cur'[i] = stack[i][Len(stack[i])]
             /\ \A k \in Elems(stack'[i]) : k < cur'[i]]_vars
  /\ [](\A i \in active :
          (Terminated(i) /\ hist[i].raised = <<>>) => stack[i] = <<>>)

\* A drain ran to its end without a failure after a deferred function
\* registered another one while an older one was pending: the new one was
\* invoked right after the one that registered it, the older one last.
C23_Witness ==
  \E i \in active :
    /\ ~IsAsync(i)
    /\ WrapperDone(i)
    /\ hist[i].raised = <<>>
    /\ stack[i] = <<>>
    /\ Len(hist[i].invoked) = 3
    /\ hist[i].drainFrom = 0
    /\ hist[i].invoked[2] > hist[i].invoked[1]
    /\ hist[i].invoked[3] < hist[i].invoked[1]

(* C24: when a wrapped call has rethrown the error E of its body, E is still
   stored once control is back at the caller, with no call in progress; a
   recover call made then returns E and clears the stored error. *)
C24_ErrorKeptAfterRethrow ==
  /\ [](\A i \in active :
          (/\ WrapperDone(i)
           /\ hist[i].outcome.kind = "raise"
           /\ hist[i].outcome = hist[i].bodyOut) =>
             /\ pc[i] = "idle" /\ ~wrapped[i]
             /\ currentError[i] = hist[i].outcome.val)
  /\ [][\A i \in active :
          (/\ Recover(i)
           /\ WrapperDone(i)
           /\ hist[i].outcome.kind = "raise"
           /\ hist[i].outcome = hist[i].bodyOut) =>
             /\ hist'[i].lastRec = Returned(hist[i].bodyOut.val)
             /\ currentError'[i] = Null]_vars

\* The call rethrew the error of its body, no recover call was made during
\* it, and a recover call made afterwards, with no call in progress, has
\* returned that error and cleared it.
C24_Witness ==
  \E i \in active :
    /\ pc[i] = "idle" /\ ~wrapped[i]
    /\ hist[i].bodyOut = Raised(Err("boom"))
    /\ hist[i].recLog = <<>>
    /\ hist[i].raised = <<>>
    /\ hist[i].invoked # <<>>
    /\ hist[i].lastRec = Returned(Err("boom"))
    /\ currentError[i] = Null

(* C25: when the body and the deferred functions terminate and only finitely
   many functions are registered, every accepted wrapped call is eventually
   back at its caller, by a return or a throw, with the flag false. *)
C25_CallTerminates ==
  \A i \in Insts :
    (InWrapper(i) /\ wrapped[i]) ~> (pc[i] = "idle" /\ ~wrapped[i])

\* An accepted call is back at its caller with the flag false after a drain
\* in which a deferred function registered a further one.
C25_Witness ==
  \E i \in active :
    /\ WrapperDone(i)
    /\ pc[i] = "idle" /\ ~wrapped[i]
    /\ Len(hist[i].invoked) = 2
    /\ hist[i].invoked[2] > hist[i].invoked[1]
    /\ hist[i].regBody = {hist[i].invoked[1]}

(* C22: legacy Deferer: a call of a wrapped function made while a wrapped
   call is still running is thrown NestedDefererError and its body does not
   start, whatever calls of defer and execute the running body made before
   it: the call stack gains no frame and the caller gets the nested error. *)
C22_LegacyNestedRejected ==
  [][(LegacyWrapperCall /\ LegacyInWrapper) =>
        /\ Len(legacy'.frames) = LegacyDepth
        /\ legacy'.frames[LegacyDepth].nested]_vars

(* C26: legacy Deferer: when the body of a wrapped call throws e, the caller
   gets e itself, no deferred function is invoked, the stack is left as it
   is, so what the body registered and did not run itself is still on it,
   and the flag is false. *)
C26_LegacyBodyThrow ==
  /\ [][\A e \in LegacyBodyThrowable :
          LegacyBodyThrow(e) =>
             /\ legacy'.out = Raised(e)
             /\ legacy'.frames = LegacyCallers
             /\ legacy'.invoked = legacy.invoked
             /\ legacy'.stack = legacy.stack
             /\ legacy'.bodyReg \ Elems(legacy.invoked) \subseteq
                  Elems(legacy'.stack)
             /\ ~legacy'.wrapped]_vars
  /\ [](legacy.out.kind = "raise" => ~legacy.wrapped)

\* The body of a top-level call registered a function and threw: the caller
\* has the error, nothing was invoked, the function is on the stack and the
\* flag is false.
C26_Witness ==
  /\ legacy.out = Raised(Err("boom"))
  /\ legacy.frames = <<>>
  /\ legacy.invoked = <<>>
  /\ legacy.bodyReg # {}
  /\ legacy.bodyReg \subseteq Elems(legacy.stack)
  /\ ~legacy.wrapped
=============================================================================
